---- MODULE Spec2Model ----
(***************************************************************************)
(* PyRate: per-pixel minimum spanning trees over the epoch graph           *)
(* (src/pyrate/mst.py) and the raster objects they read                    *)
(* (src/src/pyrate/shared.py).                                             *)
(*                                                                         *)
(* mst.py drives python-graph (pygraph): `graph` keeps, per node, the list *)
(* of its neighbours in the order the edges were added, and                *)
(* `minimal_spanning_tree` is Prim's algorithm restarted on every          *)
(* component, taking the FIRST lightest edge it meets while scanning the   *)
(* visited nodes and their neighbour lists in order.  Both are modelled by *)
(* what they do, so that the order of the neighbour lists, which the       *)
(* per-pixel add_edge/del_edge calls change, is part of the state.         *)
(*                                                                         *)
(* Epochs are 1..n.  Iterating the graph visits its nodes in increasing    *)
(* order (the node dict's key order is a fixed order of the keys).         *)
(* Every Ifg has nan_converted = True, so nan_fraction counts NaN cells.   *)
(***************************************************************************)
EXTENDS Integers, Sequences, FiniteSets, TLC

\* ---------------------------------------------------------------- bounds
NumEpochs == 3     \* epochs are 1..NumEpochs
MaxIfgs   == 3     \* at most this many interferograms in the stack
MaxPixels == 2     \* FILE_LENGTH * WIDTH is at most this
MaxNaNs   == 3     \* at most this many NaN cells in the whole stack
MaxOpens  == 4     \* at most this many calls of open() on the raster object

\* ------------------------------------------------------------- constants
None == 0          \* Python's None where an epoch (a positive number) may stand
nan  == -1         \* numpy.nan as a phase value (valid phases are positive)
NoneObj == "None"  \* Python's None where a path, a dataset or a bool may stand

VARIABLES
  ifgs,        \* the Ifg objects: DATE12, phase_data, FILE_LENGTH, WIDTH
  dates,       \* epochs.dates
  pc,          \* where mst_matrix is: start, loop, done, error
  err,         \* the exception that ended mst_matrix ("" when none)
  edges,       \* mst_matrix's local `edges`
  weights,     \* mst_matrix's local `weights`
  g,           \* mst_matrix's shared graph
  dmst,        \* the default (base) MST
  mst_result,  \* the result grid
  pos,         \* index of the next pixel in product(FILE_LENGTH, WIDTH)
  dflt,        \* outcome of a call of default_mst(ifgs, noroot)
  mst_call,    \* the latest minimal_spanning_tree(g) call made inside the loop
  ehdr_path,   \* RasterBase.ehdr_path
  dataset,     \* RasterBase.dataset
  _readonly,   \* RasterBase._readonly
  num_cells,   \* RasterBase.num_cells
  open_call    \* the latest call of RasterBase.open: argument, state before, outcome

\* the fields of the RasterBase object and the record of the calls made on it
raster_vars == <<ehdr_path, dataset, _readonly, num_cells, open_call>>

\* the state of mst_matrix and of the default_mst call
mst_vars == <<ifgs, dates, pc, err, edges, weights, g, dmst, mst_result, pos, dflt,
              mst_call>>

vars == <<mst_vars, raster_vars>>

\* ------------------------------------------------------------- utilities
Range(s) == {s[i] : i \in DOMAIN s}

\* `x in s` for a list s
In(x, s) == \E i \in DOMAIN s : s[i] = x

RECURSIVE SortedSeq(_)
\* the elements of a finite set of numbers as an increasing sequence
SortedSeq(S) ==
  IF S = {} THEN <<>>
  ELSE LET m == CHOOSE x \in S : \A y \in S : x <= y
       IN <<m>> \o SortedSeq(S \ {m})

\* list.remove(x): drops the first occurrence of x
RECURSIVE ListRemove(_, _)
ListRemove(s, x) ==
  IF s = <<>> THEN <<>>
  ELSE IF Head(s) = x THEN Tail(s)
  ELSE <<Head(s)>> \o ListRemove(Tail(s), x)

\* a function without the keys in K (del d[k])
DropKeys(f, K) == [k \in (DOMAIN f) \ K |-> f[k]]
\* ------------------------------------------- pygraph: graph (as mst.py uses it)
\* graph(): no nodes, no edges
graph == [node_neighbors |-> <<>>, edge_properties |-> <<>>]

\* iterating a graph: its nodes, in the node dict's key order
nodes(gr) == SortedSeq(DOMAIN gr.node_neighbors)

\* g.add_nodes(nodelist): add_node for each; a node already there raises
RECURSIVE add_nodes(_, _)
add_nodes(gr, nodelist) ==
  IF nodelist = <<>> THEN [err |-> "", g |-> gr]
  ELSE IF Head(nodelist) \in DOMAIN gr.node_neighbors
       THEN [err |-> "AdditionError", g |-> gr]
       ELSE add_nodes([gr EXCEPT !.node_neighbors = @ @@ (Head(nodelist) :> <<>>)],
                      Tail(nodelist))

\* g.has_edge(edge): both orientations carry properties
has_edge(gr, edge) ==
  /\ <<edge[1], edge[2]>> \in DOMAIN gr.edge_properties
  /\ <<edge[2], edge[1]>> \in DOMAIN gr.edge_properties

\* (mutant) an edge already in the graph is skipped without an error
add_edge_silent(gr, edge, wt) ==
  LET u == edge[1]
      v == edge[2]
      nn == gr.node_neighbors
  IN IF u \notin DOMAIN nn \/ v \notin DOMAIN nn THEN [err |-> "KeyError", g |-> gr]
     ELSE IF In(v, nn[u]) \/ In(u, nn[v]) THEN [err |-> "", g |-> gr]
     ELSE [err |-> "",
           g |-> [node_neighbors |-> [nn EXCEPT ![u] = Append(@, v), ![v] = Append(@, u)],
                  edge_properties |->
                    (<<u, v>> :> wt) @@ (<<v, u>> :> wt) @@ gr.edge_properties]]

\* g.add_edge(edge, wt=weight): the neighbour lists of both ends grow at their
\* END; an unknown end raises KeyError, an edge already there AdditionError
add_edge(gr, edge, wt) ==
  LET u == edge[1]
      v == edge[2]
      nn == gr.node_neighbors
  IN IF u \notin DOMAIN nn THEN [err |-> "KeyError", g |-> gr]
     ELSE IF In(v, nn[u]) THEN [err |-> "AdditionError", g |-> gr]
     ELSE IF v \notin DOMAIN nn THEN [err |-> "KeyError", g |-> gr]
     ELSE IF In(u, nn[v]) THEN [err |-> "AdditionError", g |-> gr]
     ELSE [err |-> "",
           g |-> [node_neighbors |->
                    IF u = v THEN [nn EXCEPT ![u] = Append(@, v)]
                    ELSE [nn EXCEPT ![u] = Append(@, v), ![v] = Append(@, u)],
                  edge_properties |->
                    (<<u, v>> :> wt) @@ (<<v, u>> :> wt) @@ gr.edge_properties]]

\* (mutant) a node left without neighbours leaves the graph with its last edge
del_edge_drops_isolated(gr, edge) ==
  LET u == edge[1]
      v == edge[2]
      nn == [gr.node_neighbors EXCEPT ![u] = ListRemove(@, v), ![v] = ListRemove(@, u)]
  IN [node_neighbors |-> DropKeys(nn, {n \in {u, v} : nn[n] = <<>>}),
      edge_properties |-> DropKeys(gr.edge_properties, {<<u, v>>, <<v, u>>})]

\* g.del_edge(edge): each end leaves the other's neighbour list
del_edge(gr, edge) ==
  LET u == edge[1]
      v == edge[2]
      nn == gr.node_neighbors
  IN [node_neighbors |->
        IF u = v THEN [nn EXCEPT ![u] = ListRemove(@, v)]
        ELSE [nn EXCEPT ![u] = ListRemove(@, v), ![v] = ListRemove(@, u)],
      edge_properties |-> DropKeys(gr.edge_properties, {<<u, v>>, <<v, u>>})]

\* g.edge_weight(edge)
edge_weight(gr, edge) == gr.edge_properties[edge]

\* ------------------------- pygraph: minimal_spanning_tree (Prim, per component)
NoEdge == [found |-> FALSE, edge |-> <<>>, weight |-> None]

\* (mutant) the weights are not compared: the first edge met is kept
RECURSIVE ScanNeighbours_first_edge(_, _, _, _, _)
ScanNeighbours_first_edge(gr, visited, each, j, best) ==
  IF j > Len(gr.node_neighbors[each]) THEN best
  ELSE LET other == gr.node_neighbors[each][j]
           w == edge_weight(gr, <<each, other>>)
           take == ~In(other, visited) /\ ~best.found
       IN ScanNeighbours_first_edge(gr, visited, each, j + 1,
            IF take THEN [found |-> TRUE, edge |-> <<each, other>>, weight |-> w]
            ELSE best)

\* the inner loop of _lightest_edge: `for other in graph[each]`
RECURSIVE ScanNeighbours(_, _, _, _, _)
ScanNeighbours(gr, visited, each, j, best) ==
  IF j > Len(gr.node_neighbors[each]) THEN best
  ELSE LET other == gr.node_neighbors[each][j]
           w == edge_weight(gr, <<each, other>>)
           take == /\ ~In(other, visited)
                   /\ (~best.found \/ w < best.weight \/ best.weight < 0)
       IN ScanNeighbours(gr, visited, each, j + 1,
            IF take THEN [found |-> TRUE, edge |-> <<each, other>>, weight |-> w]
            ELSE best)

\* the outer loop of _lightest_edge: `for each in visited`
RECURSIVE ScanVisited(_, _, _, _)
ScanVisited(gr, visited, i, best) ==
  IF i > Len(visited) THEN best
  ELSE ScanVisited(gr, visited, i + 1,
                   ScanNeighbours(gr, visited, visited[i], 1, best))

\* _lightest_edge(graph, visited): the first strictly lightest edge that leaves
\* the visited nodes, in scan order
_lightest_edge(gr, visited) == ScanVisited(gr, visited, 1, NoEdge)

\* _first_unvisited(graph, visited): None when every node is visited
_first_unvisited(gr, visited) ==
  LET ns == nodes(gr)
      left == {i \in DOMAIN ns : ~In(ns[i], visited)}
  IN IF left = {} THEN None
     ELSE ns[CHOOSE i \in left : \A k \in left : i <= k]

RECURSIVE PrimLoop(_, _, _)
PrimLoop(gr, visited, spanning_tree) ==
  LET ledge == _lightest_edge(gr, visited)
  IN IF ~ledge.found
     THEN LET nroot == _first_unvisited(gr, visited)
          IN IF nroot = None THEN spanning_tree
             ELSE PrimLoop(gr, Append(visited, nroot),
                           (nroot :> None) @@ spanning_tree)
     ELSE PrimLoop(gr, Append(visited, ledge.edge[2]),
                   (ledge.edge[2] :> ledge.edge[1]) @@ spanning_tree)

\* minimal_spanning_tree(graph): {node: parent}, a root's parent being None;
\* a disconnected graph gives one root per component and no error
minimal_spanning_tree(gr) == PrimLoop(gr, <<>>, <<>>)

\* --------------------------------------------------------- shared.py: Ifg
isnan(v) == v = nan

\* Ifg.nan_fraction, times num_cells (every Ifg of a stack has the same
\* num_cells, so the counts compare as the fractions do)
nan_fraction(i) ==
  LET nan_count  == Cardinality({c \in DOMAIN i.phase_data : isnan(i.phase_data[c])})
      zero_count == Cardinality({c \in DOMAIN i.phase_data : i.phase_data[c] = 0})
  IN IF i.nan_converted = FALSE /\ nan_count = 0 THEN zero_count ELSE nan_count

\* ------------------------------------------ algorithm.py (not in the sources)
\* get_all_epochs(ifgs): every master date, then every slave date
get_all_epochs(is) ==
  [k \in 1..Len(is) |-> is[k].DATE12[1]] \o [k \in 1..Len(is) |-> is[k].DATE12[2]]

\* master_slave_ids(dates): {date: id}, one key per distinct date
master_slave_ids(ds) ==
  [d \in Range(ds) |-> Cardinality({e \in Range(ds) : e < d})]

\* dict.keys()
keys(d) == SortedSeq(DOMAIN d)

\* ------------------------------------------------------------------ mst.py
\* (mutant) only the first root found is deleted
_remove_root_node_first(mst) ==
  LET roots == {k \in DOMAIN mst : mst[k] = None}
  IN IF roots = {} THEN mst
     ELSE DropKeys(mst, {CHOOSE k \in roots : \A j \in roots : k <= j})

\* _remove_root_node(mst): every entry whose parent is None is deleted
_remove_root_node(mst) == DropKeys(mst, {k \in DOMAIN mst : mst[k] = None})

\* `for edge, weight in zip(edges, weights): g.add_edge(edge, wt=weight)`
RECURSIVE add_edges(_, _, _)
add_edges(gr, es, ws) ==
  IF es = <<>> \/ ws = <<>> THEN [err |-> "", g |-> gr]
  ELSE LET r == add_edge(gr, Head(es), Head(ws))
       IN IF r.err # "" THEN r ELSE add_edges(r.g, Tail(es), Tail(ws))

\* (mutant) every epoch an edge names becomes a node, listed or not
build_graph_adds_endpoints(nodelist, es, ws) ==
  LET named == {es[k][1] : k \in DOMAIN es} \cup {es[k][2] : k \in DOMAIN es}
      r == add_nodes(graph, nodelist \o SortedSeq(named \ Range(nodelist)))
  IN IF r.err # "" THEN r ELSE add_edges(r.g, es, ws)

\* g = graph(); g.add_nodes(...); the add_edge loop
build_graph(nodelist, es, ws) ==
  LET r == add_nodes(graph, nodelist)
  IN IF r.err # "" THEN r ELSE add_edges(r.g, es, ws)

ifg_edges(is)   == [k \in 1..Len(is) |-> is[k].DATE12]
ifg_weights(is) == [k \in 1..Len(is) |-> nan_fraction(is[k])]

\* (mutant) noroot is ignored: the root stays in the result
default_mst_keeps_root(is, noroot) ==
  LET epochs == keys(master_slave_ids(get_all_epochs(is)))
      r == build_graph(epochs, ifg_edges(is), ifg_weights(is))
  IN IF r.err # "" THEN [err |-> r.err, mst |-> <<>>]
     ELSE [err |-> "", mst |-> minimal_spanning_tree(r.g)]

\* default_mst(ifgs, noroot): the tree, or the exception raised on the way
default_mst(is, noroot) ==
  LET epochs == keys(master_slave_ids(get_all_epochs(is)))
      r == build_graph(epochs, ifg_edges(is), ifg_weights(is))
      mst == minimal_spanning_tree(r.g)
  IN IF r.err # "" THEN [err |-> r.err, mst |-> <<>>]
     ELSE [err |-> "", mst |-> IF noroot THEN _remove_root_node(mst) ELSE mst]

\* (mutant) x stays 0: only the first column is visited, again and again
product_first_column(rows, cols) ==
  [k \in 1..(rows * cols) |-> <<(k - 1) \div cols, 0>>]

\* product(xrange(FILE_LENGTH), xrange(WIDTH)): row-major <<y, x>>
product(rows, cols) ==
  [k \in 1..(rows * cols) |-> <<(k - 1) \div cols, (k - 1) % cols>>]

\* `i` after the list comprehensions: the last Ifg
LastIfg == ifgs[Len(ifgs)]
num_ifgs == Len(ifgs)
Pixels == product(LastIfg.FILE_LENGTH, LastIfg.WIDTH)

\* data_stack[:, y, x]
pixel_values(is, p) == [k \in 1..Len(is) |-> is[k].phase_data[p]]
\* nc = sum(isnan(values))
nan_count(values) == Cardinality({k \in DOMAIN values : isnan(values[k])})

\* result cells: ndarray(dtype=object) starts as None everywhere
NoneCell == [kind |-> "None", mst |-> <<>>]
NanCell  == [kind |-> "nan", mst |-> <<>>]
TreeCell(t) == [kind |-> "tree", mst |-> t]

\* (mutant) an edge deleted for an earlier pixel is never added back
RECURSIVE adjust_graph_no_readd(_, _, _, _)
adjust_graph_no_readd(gr, values, es, ws) ==
  IF values = <<>> THEN gr
  ELSE LET edge == Head(es)
           g2 == IF isnan(Head(values)) /\ has_edge(gr, edge) THEN del_edge(gr, edge)
                 ELSE gr
       IN adjust_graph_no_readd(g2, Tail(values), Tail(es), Tail(ws))

\* (mutant) an edge whose value is NaN stays in the graph
RECURSIVE adjust_graph_no_delete(_, _, _, _)
adjust_graph_no_delete(gr, values, es, ws) ==
  IF values = <<>> THEN gr
  ELSE LET edge == Head(es)
           g2 == IF ~isnan(Head(values)) /\ ~has_edge(gr, edge)
                 THEN add_edge(gr, edge, Head(ws)).g
                 ELSE gr
       IN adjust_graph_no_delete(g2, Tail(values), Tail(es), Tail(ws))

\* the general path's loop over zip(values, edges, weights)
RECURSIVE adjust_graph(_, _, _, _)
adjust_graph(gr, values, es, ws) ==
  IF values = <<>> THEN gr
  ELSE LET edge == Head(es)
           g2 == IF ~isnan(Head(values))
                 THEN IF ~has_edge(gr, edge) THEN add_edge(gr, edge, Head(ws)).g ELSE gr
                 ELSE IF has_edge(gr, edge) THEN del_edge(gr, edge) ELSE gr
       IN adjust_graph(g2, Tail(values), Tail(es), Tail(ws))

\* lines 86-96 on graph gr: the graph they leave and the cell they store
general_path(gr, values, es, ws) ==
  LET g2 == adjust_graph(gr, values, es, ws)
  IN [g |-> g2, cell |-> TreeCell(_remove_root_node(minimal_spanning_tree(g2)))]

\* mst_matrix, lines 57-71, when graph construction raises
mst_matrix_raise ==
  /\ pc = "start"
  /\ LET r == build_graph(dates, ifg_edges(ifgs), ifg_weights(ifgs))
     IN /\ r.err # ""
        /\ err' = r.err
  /\ pc' = "error"
  /\ UNCHANGED <<ifgs, dates, edges, weights, g, dmst, mst_result, pos, dflt, mst_call,
               raster_vars>>

\* mst_matrix, lines 57-71: edges, weights, the graph, the base MST, the grid
mst_matrix_setup ==
  /\ pc = "start"
  /\ LET r == build_graph(dates, ifg_edges(ifgs), ifg_weights(ifgs))
     IN /\ r.err = ""
        /\ g' = r.g
        /\ dmst' = _remove_root_node(minimal_spanning_tree(r.g))
  /\ edges' = ifg_edges(ifgs)
  /\ weights' = ifg_weights(ifgs)
  /\ mst_result' = [p \in Range(Pixels) |-> NoneCell]
  /\ pos' = 1
  /\ pc' = "loop"
  /\ UNCHANGED <<ifgs, dates, err, dflt, mst_call, raster_vars>>

\* (mutant) a NaN-free pixel puts every edge back before storing the base MST
pixel_no_nans_restores ==
  /\ pc = "loop" /\ pos <= Len(Pixels)
  /\ nan_count(pixel_values(ifgs, Pixels[pos])) = 0
  /\ g' = adjust_graph(g, pixel_values(ifgs, Pixels[pos]), edges, weights)
  /\ mst_result' = [mst_result EXCEPT ![Pixels[pos]] = TreeCell(dmst)]
  /\ pos' = pos + 1
  /\ UNCHANGED <<ifgs, dates, pc, err, edges, weights, dmst, dflt, mst_call,
                 raster_vars>>

\* (mutant) a NaN-free pixel stores the MST of the shared graph as it stands
pixel_no_nans_recompute ==
  /\ pc = "loop" /\ pos <= Len(Pixels)
  /\ nan_count(pixel_values(ifgs, Pixels[pos])) = 0
  /\ mst_result' = [mst_result EXCEPT
                      ![Pixels[pos]] = TreeCell(_remove_root_node(minimal_spanning_tree(g)))]
  /\ pos' = pos + 1
  /\ UNCHANGED <<ifgs, dates, pc, err, edges, weights, g, dmst, dflt, mst_call,
                 raster_vars>>

\* lines 79-81: no NaN at the pixel
pixel_no_nans ==
  /\ pc = "loop" /\ pos <= Len(Pixels)
  /\ nan_count(pixel_values(ifgs, Pixels[pos])) = 0
  /\ mst_result' = [mst_result EXCEPT ![Pixels[pos]] = TreeCell(dmst)]
  /\ pos' = pos + 1
  /\ UNCHANGED <<ifgs, dates, pc, err, edges, weights, g, dmst, dflt, mst_call,
                 raster_vars>>

\* (mutant) the all-NaN test is missing: the pixel takes the general path
pixel_all_nans_general ==
  /\ pc = "loop" /\ pos <= Len(Pixels)
  /\ nan_count(pixel_values(ifgs, Pixels[pos])) # 0
  /\ nan_count(pixel_values(ifgs, Pixels[pos])) = num_ifgs
  /\ LET st == general_path(g, pixel_values(ifgs, Pixels[pos]), edges, weights)
     IN /\ g' = st.g
        /\ mst_result' = [mst_result EXCEPT ![Pixels[pos]] = st.cell]
        /\ mst_call' = [n |-> mst_call.n + 1, pixel |-> Pixels[pos], g |-> st.g]
  /\ pos' = pos + 1
  /\ UNCHANGED <<ifgs, dates, pc, err, edges, weights, dmst, dflt, raster_vars>>

\* (mutant) the MST routine runs on the graph before the NaN is stored
pixel_all_nans_runs_mst ==
  /\ pc = "loop" /\ pos <= Len(Pixels)
  /\ nan_count(pixel_values(ifgs, Pixels[pos])) # 0
  /\ nan_count(pixel_values(ifgs, Pixels[pos])) = num_ifgs
  /\ mst_result' = [mst_result EXCEPT ![Pixels[pos]] = NanCell]
  /\ mst_call' = [n |-> mst_call.n + 1, pixel |-> Pixels[pos], g |-> g]
  /\ pos' = pos + 1
  /\ UNCHANGED <<ifgs, dates, pc, err, edges, weights, g, dmst, dflt, raster_vars>>

\* lines 82-84: every value at the pixel is NaN
pixel_all_nans ==
  /\ pc = "loop" /\ pos <= Len(Pixels)
  /\ nan_count(pixel_values(ifgs, Pixels[pos])) # 0
  /\ nan_count(pixel_values(ifgs, Pixels[pos])) = num_ifgs
  /\ mst_result' = [mst_result EXCEPT ![Pixels[pos]] = NanCell]
  /\ pos' = pos + 1
  /\ UNCHANGED <<ifgs, dates, pc, err, edges, weights, g, dmst, dflt, mst_call,
                 raster_vars>>

\* lines 86-96: adjust the shared graph to the pixel, then the MST of it
pixel_general ==
  /\ pc = "loop" /\ pos <= Len(Pixels)
  /\ nan_count(pixel_values(ifgs, Pixels[pos])) # 0
  /\ nan_count(pixel_values(ifgs, Pixels[pos])) # num_ifgs
  /\ LET st == general_path(g, pixel_values(ifgs, Pixels[pos]), edges, weights)
     IN /\ g' = st.g
        /\ mst_result' = [mst_result EXCEPT ![Pixels[pos]] = st.cell]
        /\ mst_call' = [n |-> mst_call.n + 1, pixel |-> Pixels[pos], g |-> st.g]
  /\ pos' = pos + 1
  /\ UNCHANGED <<ifgs, dates, pc, err, edges, weights, dmst, dflt, raster_vars>>

\* one pass of the loop body (lines 75-96) on graph gr
pixel_step(gr, values) ==
  IF nan_count(values) = 0 THEN [g |-> gr, cell |-> TreeCell(dmst)]
  ELSE IF nan_count(values) = num_ifgs THEN [g |-> gr, cell |-> NanCell]
  ELSE general_path(gr, values, edges, weights)

\* the loop of lines 74-96 visiting the pixels in the given order, from graph gr
RECURSIVE loop_over(_, _, _, _)
loop_over(order, k, gr, result) ==
  IF k > Len(order) THEN result
  ELSE LET st == pixel_step(gr, pixel_values(ifgs, order[k]))
       IN loop_over(order, k + 1, st.g, [result EXCEPT ![order[k]] = st.cell])

\* line 98: return mst_result
mst_matrix_return ==
  /\ pc = "loop" /\ pos > Len(Pixels)
  /\ pc' = "done"
  /\ UNCHANGED <<ifgs, dates, err, edges, weights, g, dmst, mst_result, pos, dflt,
                 mst_call, raster_vars>>

\* a call of default_mst(ifgs, noroot) on the same Ifgs, once mst_matrix is over
call_default_mst ==
  /\ pc \in {"done", "error"}
  /\ ~dflt.called
  /\ \E noroot \in BOOLEAN :
       dflt' = [called |-> TRUE, noroot |-> noroot] @@ default_mst(ifgs, noroot)
  /\ UNCHANGED <<ifgs, dates, pc, err, edges, weights, g, dmst, mst_result, pos,
                 mst_call, raster_vars>>

Next ==
  \/ mst_matrix_raise
  \/ mst_matrix_setup
  \/ pixel_no_nans
  \/ pixel_all_nans
  \/ pixel_general
  \/ mst_matrix_return
  \/ call_default_mst

\* ------------------------------------------------- shared.py: RasterBase
\* roipac.to_ehdr_header(hdr_path): writes the EHdr header, returns its path
to_ehdr_header(hdr) == "ehdr(" \o hdr \o ")"

\* the header path a RasterBase is constructed with
hdr_path == "hdr"

\* gdal.Open(data_path) / gdal.Open(data_path, GA_Update), when it opens the file
gdal_Open(readonly) == IF readonly THEN "Dataset(GA_ReadOnly)" ELSE "Dataset(GA_Update)"

\* a bool as the object open() stores in _readonly
bool(b) == IF b THEN "True" ELSE "False"

\* the fields open() reads or writes
fields == [ehdr_path |-> ehdr_path, dataset |-> dataset,
           _readonly |-> _readonly, num_cells |-> num_cells]

\* RasterBase.__init__, lines 46-50
RasterBase_init(FILE_LENGTH, WIDTH) ==
  /\ ehdr_path = NoneObj
  /\ dataset = NoneObj
  /\ _readonly = NoneObj
  /\ num_cells = FILE_LENGTH * WIDTH
  /\ open_call = [n |-> 0]

\* RasterBase.is_open
is_open == dataset # NoneObj

\* the record of a call open(readonly) made in the current state
called(readonly, outcome) ==
  [n |-> open_call.n + 1, readonly |-> readonly, before |-> fields, outcome |-> outcome]

\* lines 81-82 with the dataset ds: num_cells is taken from the dataset (here
\* of one cell) when it is None; __init__ (line 50) leaves a number
num_cells_after(ds) == IF num_cells = None THEN 1 ELSE num_cells

\* open(), line 67 raises: to_ehdr_header fails, nothing has been assigned
open_header_fails ==
  /\ open_call.n < MaxOpens
  /\ ehdr_path = NoneObj
  /\ \E readonly \in BOOLEAN : open_call' = called(readonly, "IOError")
  /\ UNCHANGED <<ehdr_path, dataset, _readonly, num_cells, mst_vars>>

\* open(), lines 66-72: the header is written, then gdal.Open raises
\* (gdal.UseExceptions, line 16) or returns None (RasterException, line 72)
open_dataset_fails ==
  /\ open_call.n < MaxOpens
  /\ ehdr_path = NoneObj
  /\ ehdr_path' = to_ehdr_header(hdr_path)
  /\ \E readonly \in BOOLEAN :
       \/ /\ dataset' = NoneObj
          /\ open_call' = called(readonly, "RasterException")
       \/ /\ dataset' = dataset
          /\ open_call' = called(readonly, "RuntimeError")
  /\ UNCHANGED <<_readonly, num_cells, mst_vars>>

\* open(), lines 66-82: first call, gdal.Open gives a dataset
open_succeeds ==
  /\ open_call.n < MaxOpens
  /\ ehdr_path = NoneObj
  /\ ehdr_path' = to_ehdr_header(hdr_path)
  /\ \E readonly \in BOOLEAN :
       /\ dataset' = gdal_Open(readonly)
       /\ _readonly' = bool(readonly)
       /\ open_call' = called(readonly, "returned")
  /\ num_cells' = num_cells_after(dataset')
  /\ UNCHANGED mst_vars

\* (mutant) the flag is stored before the second open() is rejected
open_already_open_sets_flag ==
  /\ open_call.n < MaxOpens
  /\ ehdr_path # NoneObj
  /\ dataset # NoneObj
  /\ \E readonly \in BOOLEAN :
       /\ _readonly' = bool(readonly)
       /\ open_call' = called(readonly, "RasterException")
  /\ UNCHANGED <<ehdr_path, dataset, num_cells, mst_vars>>

\* open(), lines 74-77: ehdr_path is set and the dataset is there
open_already_open ==
  /\ open_call.n < MaxOpens
  /\ ehdr_path # NoneObj
  /\ dataset # NoneObj
  /\ \E readonly \in BOOLEAN : open_call' = called(readonly, "RasterException")
  /\ UNCHANGED <<ehdr_path, dataset, _readonly, num_cells, mst_vars>>

\* open(), lines 74-82: ehdr_path is set but the dataset is None; nothing is
\* opened, line 79 stores the flag, line 82 reads self.dataset only when
\* num_cells is None
open_after_failure ==
  /\ open_call.n < MaxOpens
  /\ ehdr_path # NoneObj
  /\ dataset = NoneObj
  /\ \E readonly \in BOOLEAN :
       /\ _readonly' = bool(readonly)
       /\ open_call' = called(readonly,
                              IF num_cells = None THEN "AttributeError" ELSE "returned")
  /\ UNCHANGED <<ehdr_path, dataset, num_cells, mst_vars>>

\* the calls a client makes on one RasterBase object
NextRaster ==
  \/ open_header_fails
  \/ open_dataset_fails
  \/ open_succeeds
  \/ open_already_open
  \/ open_after_failure

\* ------------------------------------------------------------------ inputs
Pairs(n) == {e \in (1..n) \X (1..n) : e[1] < e[2]}
PairLE(a, b) == a[1] < b[1] \/ (a[1] = b[1] /\ a[2] <= b[2])

\* the DATE12 lists: master before slave, the list in date order, repeats allowed
PairLists(n, m) ==
  UNION {{s \in [1..len -> Pairs(n)] : \A k \in 1..(len - 1) : PairLE(s[k], s[k + 1])}
         : len \in 1..m}

HasRepeat(s) == \E j, k \in DOMAIN s : j < k /\ s[j] = s[k]
Endpoints(s) == {s[k][1] : k \in DOMAIN s} \cup {s[k][2] : k \in DOMAIN s}

\* epochs.dates: the unique dates of the Ifgs, or that list short of one date
DateLists(s) ==
  {SortedSeq(Endpoints(s))} \cup {SortedSeq(Endpoints(s) \ {e}) : e \in Endpoints(s)}

\* FILE_LENGTH x WIDTH
Shapes(p) == {sh \in (1..p) \X (1..p) : sh[1] <= sh[2] /\ sh[1] * sh[2] <= p}
Grid(sh) == (0..(sh[1] - 1)) \X (0..(sh[2] - 1))

\* the subsets of S with at most k elements
RECURSIVE SubsetsUpTo(_, _)
SubsetsUpTo(S, k) ==
  IF k = 0 THEN {{}}
  ELSE LET smaller == SubsetsUpTo(S, k - 1)
       IN smaller \cup {T \cup {x} : T \in smaller, x \in S}

\* the sets of at most k NaN cells <<ifg, pixel>> of a stack
NaNSets(len, sh, k) == SubsetsUpTo((1..len) \X Grid(sh), k)

MakeIfgs(s, sh, N) ==
  [k \in 1..Len(s) |->
     [DATE12 |-> s[k],
      phase_data |-> [c \in Grid(sh) |-> IF <<k, c>> \in N THEN nan ELSE 1],
      FILE_LENGTH |-> sh[1], WIDTH |-> sh[2],
      nan_converted |-> TRUE]]

\* A stack the graph can be built from comes with every choice of at most k NaN
\* cells; one with a repeated DATE12, or with epochs.dates short of a date, comes
\* with NaN-free data (construction raises whatever the data).
InitWith(n, m, p, k) ==
  /\ \E s \in PairLists(n, m) : \E sh \in Shapes(p) : \E ds \in DateLists(s) :
       LET sound == ~HasRepeat(s) /\ Range(ds) = Endpoints(s)
       IN /\ \E N \in NaNSets(Len(s), sh, IF sound THEN k ELSE 0) :
               ifgs = MakeIfgs(s, sh, N)
          /\ dates = ds
  /\ pc = "start"
  /\ err = ""
  /\ edges = <<>>
  /\ weights = <<>>
  /\ g = graph
  /\ dmst = <<>>
  /\ mst_result = <<>>
  /\ pos = 0
  /\ dflt = [called |-> FALSE]
  /\ mst_call = [n |-> 0]
  /\ RasterBase_init(LastIfg.FILE_LENGTH, LastIfg.WIDTH)

Init == InitWith(NumEpochs, MaxIfgs, MaxPixels, MaxNaNs)
Spec == Init /\ [][Next]_vars

\* The same program on stacks wide enough for a pixel's valid edges to hold a
\* cycle while another edge is missing (one more epoch, two more Ifgs) and for
\* three pixels to differ.
InitWide == InitWith(NumEpochs + 1, MaxIfgs + 2, MaxPixels + 1, MaxNaNs)
SpecWide == InitWide /\ [][Next]_vars

\* The stacks of InitWith in which no pixel misses more than q Ifgs.
InitStacks(n, m, p, k, q) ==
  /\ \E s \in PairLists(n, m) : \E sh \in Shapes(p) : \E ds \in DateLists(s) :
       LET sound == ~HasRepeat(s) /\ Range(ds) = Endpoints(s)
       IN /\ \E N \in NaNSets(Len(s), sh, IF sound THEN k ELSE 0) :
               /\ \A c \in Grid(sh) : Cardinality({e \in N : e[2] = c}) <= q
               /\ ifgs = MakeIfgs(s, sh, N)
          /\ dates = ds
  /\ pc = "start"
  /\ err = ""
  /\ edges = <<>>
  /\ weights = <<>>
  /\ g = graph
  /\ dmst = <<>>
  /\ mst_result = <<>>
  /\ pos = 0
  /\ dflt = [called |-> FALSE]
  /\ mst_call = [n |-> 0]
  /\ RasterBase_init(LastIfg.FILE_LENGTH, LastIfg.WIDTH)

\* Grids of four pixels, each missing at most one Ifg: enough for a pixel to
\* come back to a set of missing Ifgs after two other sets were seen.
InitLong == InitStacks(NumEpochs + 1, MaxIfgs + 1, MaxPixels + 2, MaxNaNs + 1, 1)
SpecLong == InitLong /\ [][Next]_vars

\* a step of mst_matrix as pc and pos see it: out of the set-up, on to the next
\* pixel, or out of the loop
mst_matrix_advances ==
  /\ pc \in {"start", "loop"}
  /\ pc' \in {"loop", "done", "error"}
  /\ pos' \in {pos, pos + 1}

\* mst_matrix run to its end: it is sequential code without waits, so while it
\* is at its start or in its loop it goes on to make its next step
SpecFair == Init /\ [][Next]_vars /\ WF_<<pc, pos>>(mst_matrix_advances)

\* One RasterBase object, built from a header of any small shape, and the
\* open() calls made on it; mst_matrix is not running.
InitRaster ==
  /\ \E sh \in (1..MaxPixels) \X (1..MaxPixels) : RasterBase_init(sh[1], sh[2])
  /\ ifgs = <<>>
  /\ dates = <<>>
  /\ pc = "idle"
  /\ err = ""
  /\ edges = <<>>
  /\ weights = <<>>
  /\ g = graph
  /\ dmst = <<>>
  /\ mst_result = <<>>
  /\ pos = 0
  /\ dflt = [called |-> FALSE]
  /\ mst_call = [n |-> 0]
SpecRaster == InitRaster /\ [][NextRaster]_vars

\* ------------------------------------------------- vocabulary of the claims
Started == pc \in {"loop", "done"}
\* the pixels the loop has been through
Processed == IF Started THEN {Pixels[k] : k \in 1..(pos - 1)} ELSE {}
\* the Ifgs (by index) whose value at pixel p is not NaN
ValidAt(p) == {k \in 1..Len(ifgs) : ~isnan(ifgs[k].phase_data[p])}
AllValid(p) == ValidAt(p) = 1..Len(ifgs)
AllMissing(p) == ValidAt(p) = {}
IsGeneral(p) == ~AllValid(p) /\ ~AllMissing(p)
NoNaNAnywhere == \A k \in 1..Len(ifgs) : \A c \in DOMAIN ifgs[k].phase_data :
                   ~isnan(ifgs[k].phase_data[c])

\* the elements of s at the indices in K, in order
RECURSIVE Pick(_, _, _)
Pick(s, K, k) ==
  IF k > Len(s) THEN <<>>
  ELSE (IF k \in K THEN <<s[k]>> ELSE <<>>) \o Pick(s, K, k + 1)

\* the MST routine on a graph built from scratch with all epochs and exactly the
\* edges valid at p, added in the Ifgs' order with their stored weights
FreshMst(p) ==
  _remove_root_node(minimal_spanning_tree(
    build_graph(dates, Pick(edges, ValidAt(p), 1), Pick(weights, ValidAt(p), 1)).g))

\* the nodes reached from R along the edges E in at most n steps
RECURSIVE Reach(_, _, _)
Reach(R, E, n) ==
  IF n = 0 THEN R
  ELSE Reach(R \cup {e[2] : e \in {d \in E : d[1] \in R}}
               \cup {e[1] : e \in {d \in E : d[2] \in R}}, E, n - 1)

\* the edges E connect all the nodes V
ConnectedBy(V, E) ==
  \A v \in V : Reach({v}, E, Cardinality(V)) = V

EdgesOf(K) == {ifgs[k].DATE12 : k \in K}
Epochs == Range(dates)
ConnectedAt(p) == ConnectedBy(Epochs, EdgesOf(ValidAt(p)))

\* following parent pointers from k for n steps leaves the tree's keys
RECURSIVE LeavesTree(_, _, _)
LeavesTree(t, k, n) ==
  IF k \notin DOMAIN t THEN TRUE
  ELSE IF n = 0 THEN FALSE
  ELSE LeavesTree(t, t[k], n - 1)

Acyclic(t) == \A k \in DOMAIN t : LeavesTree(t, k, Cardinality(DOMAIN t))
NumRoots(t) == Cardinality({k \in DOMAIN t : t[k] = None})

\* ------------------------------------------------------------------ claims

\* C1 (as claimed; refuted): every general-path pixel's stored tree equals the
\* MST routine's result on a graph built from scratch with exactly the edges
\* valid at that pixel, whatever pixels were visited before it, ties included.
C1_DiffEquivalence ==
  \A p \in Processed : IsGeneral(p) => mst_result[p] = TreeCell(FreshMst(p))

\* C2: with no NaN anywhere, every cell mst_matrix stores equals what
\* default_mst (root removed) returns for the same Ifgs.
C2_FullDataEquivalence ==
  (Started /\ NoNaNAnywhere /\ dflt.called /\ dflt.noroot) =>
     /\ dflt.err = ""
     /\ \A p \in Processed : mst_result[p] = TreeCell(dflt.mst)

C2_Witness ==
  /\ pc = "done" /\ NoNaNAnywhere /\ dflt.called /\ dflt.noroot
  /\ Len(ifgs) >= 2 /\ Len(Pixels) >= 2
  /\ \A p \in Range(Pixels) : mst_result[p].kind = "tree" /\ mst_result[p].mst # <<>>

\* C3: a pixel where every Ifg is NaN holds the NaN sentinel, never a tree,
\* whatever was processed before it.
C3_TotalLossSentinel ==
  \A p \in Processed : AllMissing(p) => mst_result[p] = NanCell

C3_Witness ==
  /\ Started /\ pos >= 3
  /\ IsGeneral(Pixels[pos - 2])
  /\ AllMissing(Pixels[pos - 1])
  /\ mst_result[Pixels[pos - 1]].kind = "nan"

\* C4: no tree that default_mst (noroot=True) returns or that mst_matrix keeps
\* (the base MST, any cell) has an entry whose parent is None, also when the
\* graph is disconnected and the MST routine produced several roots.
C4_RootExclusion ==
  /\ NumRoots(dmst) = 0
  /\ \A p \in DOMAIN mst_result : NumRoots(mst_result[p].mst) = 0
  /\ (dflt.called /\ dflt.noroot) => NumRoots(dflt.mst) = 0

C4_Witness ==
  /\ Started /\ pos >= 2
  /\ IsGeneral(Pixels[pos - 1])
  /\ NumRoots(minimal_spanning_tree(g)) >= 2
  /\ mst_result[Pixels[pos - 1]].kind = "tree"
  /\ mst_result[Pixels[pos - 1]].mst # <<>>

\* C5: a pixel whose valid edges connect all epochs holds a tree with exactly
\* (number of epochs - 1) entries, and its parent pointers never cycle.
C5_TreeSize ==
  \A p \in Processed : ConnectedAt(p) =>
     /\ mst_result[p].kind = "tree"
     /\ Cardinality(DOMAIN mst_result[p].mst) = Len(dates) - 1
     /\ DOMAIN mst_result[p].mst \subseteq Epochs
     /\ Acyclic(mst_result[p].mst)

C5_Witness ==
  /\ Started /\ pos >= 3
  /\ IsGeneral(Pixels[pos - 2]) /\ IsGeneral(Pixels[pos - 1])
  /\ ValidAt(Pixels[pos - 2]) # ValidAt(Pixels[pos - 1])
  /\ ConnectedAt(Pixels[pos - 1])
  /\ Len(dates) >= 3
  /\ Cardinality(DOMAIN mst_result[Pixels[pos - 1]].mst) = Len(dates) - 1

\* the traversal orders of the grid
Orders == {o \in [1..Len(Pixels) -> Range(Pixels)] : Range(o) = Range(Pixels)}
\* the shared graph as lines 61-64 leave it
BaseGraph == build_graph(dates, edges, weights).g

\* C6 (as claimed; refuted): visiting the pixels of the same stack in any other
\* order gives every pixel the result the row-major run gave it.
C6_OrderIndependence ==
  pc = "done" =>
    \A o \in Orders :
      loop_over(o, 1, BaseGraph, [p \in Range(Pixels) |-> NoneCell]) = mst_result

\* the Ifg behind the tree edge between a and b at pixel p
IfgOfEdge(p, a, b) ==
  CHOOSE k \in ValidAt(p) : {ifgs[k].DATE12[1], ifgs[k].DATE12[2]} = {a, b}
TreeUsesValidEdges(p, t) ==
  \A c \in DOMAIN t :
    \E k \in ValidAt(p) : {ifgs[k].DATE12[1], ifgs[k].DATE12[2]} = {c, t[c]}
TreeIfgs(p, t) == {IfgOfEdge(p, c, t[c]) : c \in DOMAIN t}

RECURSIVE TotalWeight(_)
TotalWeight(K) ==
  IF K = {} THEN 0
  ELSE LET k == CHOOSE j \in K : TRUE IN weights[k] + TotalWeight(K \ {k})

\* the spanning trees of the subgraph of the edges valid at p, as sets of Ifgs
SpanningTrees(p) ==
  {T \in SUBSET ValidAt(p) :
     /\ Cardinality(T) = Cardinality(Epochs) - 1
     /\ ConnectedBy(Epochs, EdgesOf(T))}

\* C7: a general-path pixel whose valid edges connect all epochs holds a
\* spanning tree made of edges valid at that pixel only, and no spanning tree
\* of the valid edges is lighter.
C7_PerPixelMinimality ==
  \A p \in Processed : (IsGeneral(p) /\ ConnectedAt(p)) =>
     /\ mst_result[p].kind = "tree"
     /\ TreeUsesValidEdges(p, mst_result[p].mst)
     /\ TreeIfgs(p, mst_result[p].mst) \in SpanningTrees(p)
     /\ \A T \in SpanningTrees(p) :
          TotalWeight(TreeIfgs(p, mst_result[p].mst)) <= TotalWeight(T)

\* a general-path pixel, reached after another one, whose valid edges hold a
\* cycle with spanning trees of different weights
C7_Witness ==
  /\ Started /\ pos >= 3
  /\ IsGeneral(Pixels[pos - 2])
  /\ IsGeneral(Pixels[pos - 1]) /\ ConnectedAt(Pixels[pos - 1])
  /\ \E T, U \in SpanningTrees(Pixels[pos - 1]) : TotalWeight(T) < TotalWeight(U)
  /\ TreeIfgs(Pixels[pos - 1], mst_result[Pixels[pos - 1]].mst)
        \in SpanningTrees(Pixels[pos - 1])

\* C8 (as claimed; refuted): a general-path pixel whose valid edges do not
\* connect all epochs gets an error outcome, and no partial tree is stored in
\* its cell.
C8_DisconnectedPixel ==
  \A p \in Processed : (IsGeneral(p) /\ ~ConnectedAt(p)) =>
     mst_result[p].kind # "tree"

\* the full set of Ifg edges does not connect the epochs they name
BaseDisconnected ==
  /\ ~HasRepeat(ifg_edges(ifgs))
  /\ Epochs = Endpoints(ifg_edges(ifgs))
  /\ ~ConnectedBy(Epochs, EdgesOf(1..Len(ifgs)))

\* C9 (as claimed; refuted): with a disconnected base graph, the base MST ends
\* in a DisconnectedGraphError in default_mst and in mst_matrix, which stops
\* before any pixel.
C9_DisconnectedBase ==
  BaseDisconnected =>
     /\ ~Started
     /\ pc = "error" => err = "DisconnectedGraphError"
     /\ dflt.called => dflt.err = "DisconnectedGraphError"

MissingEpoch == ~(Endpoints(ifg_edges(ifgs)) \subseteq Epochs)

C12_SameMaskSameResult ==
  \A p, q \in Processed : ValidAt(p) = ValidAt(q) => mst_result[p] = mst_result[q]

\* the edges a graph holds, master date first
ActiveEdges(gr) == {e \in DOMAIN gr.edge_properties : e[1] < e[2]}
\* the neighbour lists and the edge properties of gr describe the edges E
Holds(gr, E) ==
  /\ DOMAIN gr.edge_properties = E \cup {<<e[2], e[1]>> : e \in E}
  /\ \A u \in DOMAIN gr.node_neighbors :
       /\ Range(gr.node_neighbors[u]) =
            {e[2] : e \in {d \in E : d[1] = u}} \cup {e[1] : e \in {d \in E : d[2] = u}}
       /\ Len(gr.node_neighbors[u]) = Cardinality(Range(gr.node_neighbors[u]))

\* C13: when the MST routine is called for a general-path pixel, the shared
\* graph holds exactly the edges of the Ifgs valid at that pixel, each with the
\* weight stored for it at the start, whatever it held when the pixel began.
C13_GraphMembership ==
  mst_call.n > 0 =>
    /\ Holds(mst_call.g, EdgesOf(ValidAt(mst_call.pixel)))
    /\ \A k \in ValidAt(mst_call.pixel) :
         /\ edge_weight(mst_call.g, edges[k]) = weights[k]
         /\ edge_weight(mst_call.g, <<edges[k][2], edges[k][1]>>) = weights[k]

\* the second of two general-path pixels, each missing an Ifg the other has
C13_Witness ==
  /\ Started /\ pos >= 3 /\ mst_call.n >= 2
  /\ mst_call.pixel = Pixels[pos - 1]
  /\ IsGeneral(Pixels[pos - 2])
  /\ ValidAt(Pixels[pos - 2]) \ ValidAt(Pixels[pos - 1]) # {}
  /\ ValidAt(Pixels[pos - 1]) \ ValidAt(Pixels[pos - 2]) # {}

\* C14: a step of the loop over a pixel with no NaN, or with nothing but NaN,
\* leaves the shared graph as it was.
C14_FastPathsKeepGraph ==
  [][(pc = "loop" /\ pos <= Len(Pixels) /\ pos' = pos + 1 /\ ~IsGeneral(Pixels[pos]))
       => g' = g]_vars

\* a fast-path pixel processed while the graph lacks an edge of the stack
C14_Witness ==
  /\ Started /\ pos >= 3
  /\ ~IsGeneral(Pixels[pos - 1])
  /\ mst_result[Pixels[pos - 1]].kind # "None"
  /\ ActiveEdges(g) # Range(edges)
  /\ ActiveEdges(g) = EdgesOf(ValidAt(Pixels[pos - 2]))

\* C15: inside the loop the MST routine has been called once per general-path
\* pixel processed and for no other pixel, and the graph of each call has at
\* least one edge.
C15_OracleGuard ==
  /\ mst_call.n = Cardinality({p \in Processed : IsGeneral(p)})
  /\ mst_call.n > 0 =>
       /\ IsGeneral(mst_call.pixel)
       /\ ActiveEdges(mst_call.g) # {}

\* an all-NaN pixel passed without a call, after a call on a one-edge graph
C15_Witness ==
  /\ Started /\ pos >= 3
  /\ AllMissing(Pixels[pos - 1])
  /\ mst_call.n = 1 /\ mst_call.pixel = Pixels[pos - 2]
  /\ Cardinality(ActiveEdges(mst_call.g)) = 1

\* the cells of the FILE_LENGTH x WIDTH grid
GridCells == Grid(<<LastIfg.FILE_LENGTH, LastIfg.WIDTH>>)

\* C16: a cell that has been written keeps its value; every step of the loop
\* writes one cell that was empty; the loop ends; and at the end every cell of
\* the FILE_LENGTH x WIDTH grid holds a tree or the NaN sentinel.
C16_WriteOnceComplete ==
  /\ [][\A p \in DOMAIN mst_result :
          mst_result[p] # NoneCell =>
            (p \in DOMAIN mst_result' /\ mst_result'[p] = mst_result[p])]_vars
  /\ [][(pc = "loop" /\ pos' = pos + 1) =>
          Cardinality({p \in DOMAIN mst_result :
                         mst_result[p] = NoneCell /\ mst_result'[p] # NoneCell}) = 1]_vars
  /\ [](pc = "done" =>
          /\ DOMAIN mst_result = GridCells
          /\ \A p \in GridCells : mst_result[p].kind \in {"tree", "nan"})
  /\ (pc = "loop" ~> pc = "done")

C16_Witness ==
  /\ pc = "done" /\ Len(Pixels) >= 2
  /\ \E p \in GridCells : mst_result[p].kind = "nan"
  /\ \E p \in GridCells : mst_result[p].kind = "tree"

\* C17: once computed, the base MST never changes, it is the MST (roots
\* removed) of the graph of all edges, and every NaN-free pixel holds it,
\* however many general-path pixels changed the shared graph before.
C17_BaseMstImmutable ==
  /\ [][Started => dmst' = dmst]_vars
  /\ [](Started => dmst = _remove_root_node(minimal_spanning_tree(BaseGraph)))
  /\ [](\A p \in Processed : AllValid(p) => mst_result[p] = TreeCell(dmst))

\* a NaN-free pixel processed right after a general-path pixel
C17_Witness ==
  /\ Started /\ pos >= 3
  /\ IsGeneral(Pixels[pos - 2])
  /\ AllValid(Pixels[pos - 1])
  /\ mst_result[Pixels[pos - 1]] = TreeCell(dmst)
  /\ _remove_root_node(minimal_spanning_tree(g)) # dmst

\* C18: while mst_matrix runs, the nodes of the shared graph are the epochs it
\* was built with, and its edges (and neighbour lists) are drawn from the
\* Ifgs' edge list.
C18_NodeSetFixed ==
  Started =>
    /\ DOMAIN g.node_neighbors = Epochs
    /\ ActiveEdges(g) \subseteq Range(edges)
    /\ Holds(g, ActiveEdges(g))

\* edges have been taken out and put back
C18_Witness ==
  /\ Started /\ mst_call.n >= 2
  /\ Len(dates) >= 3
  /\ ActiveEdges(g) # Range(edges)
  /\ \E u \in Epochs :
       /\ g.node_neighbors[u] # <<>>
       /\ Head(g.node_neighbors[u]) # Head(BaseGraph.node_neighbors[u])

\* C19 (as claimed; refuted): whenever a call of open() returns without
\* raising, also one made after an earlier open() failed with ehdr_path set
\* and no dataset, is_open is True afterwards.
C19_OpenPostcondition ==
  (open_call.n > 0 /\ open_call.outcome = "returned") => is_open

\* C20: open() on a raster that is already open raises RasterException and
\* leaves dataset, ehdr_path and _readonly as they were, whatever readonly
\* argument it was given.
C20_DoubleOpenRejected ==
  (open_call.n > 0 /\ open_call.before.dataset # NoneObj) =>
     /\ open_call.outcome = "RasterException"
     /\ fields = open_call.before

\* a second open() that asked for the other access mode
C20_Witness ==
  /\ open_call.n >= 2
  /\ open_call.before.dataset # NoneObj
  /\ bool(open_call.readonly) # open_call.before._readonly
  /\ open_call.outcome = "RasterException"
  /\ is_open
====
